---- MODULE Spec2Model ----
(***************************************************************************)
(* MEGAN-MD session orchestrator (megan.js, index script, MessageCache).   *)
(*                                                                         *)
(* The model follows the JavaScript run-to-completion discipline: every    *)
(* action is the code executed between two suspension points (an await, a  *)
(* timer, an event delivered by the transport).                            *)
(*                                                                         *)
(* The transport (Baileys socket) is the environment.  A handle returned   *)
(* by makeWASocket has a transport-side status; the handlers subscribed by *)
(* setupEventHandlers stay subscribed for the life of the process.         *)
(***************************************************************************)
EXTENDS Integers, Sequences, FiniteSets, Bags, TLC

\* ------------------------------------------------------------------ bounds
MaxHandles == 2          \* transport handles tracked at once
MaxPending == 2          \* reconnect timers and connect() calls pending at once
MaxErrors == 1           \* cap on stats.errors
MaxReconnects == 11      \* cap on stats.reconnects
MaxAnnounce == 1         \* startup-notification timers pending at once
MaxBatchLen == 2         \* messages in one messages.upsert batch
MaxRejections == 1       \* cap on the rejections logged by the process-level handler
MaxIds == 2              \* distinct message ids offered to the cache
MaxChats == 2            \* distinct chat ids offered to the cache
MaxTotal == 2            \* cap on MessageCache.stats.totalMessages
MaxTick == 4             \* clock ticks
MaxStamp == 2            \* largest messageTimestamp (seconds) carried by a message
MaxParts == 2            \* content objects present in one message payload
MaxChanges == 1          \* changes made to the command sources after the first load
MaxTextLen == 4          \* characters typed after the prefix of a command message
MaxUsers == 2            \* users talking to the chatbot
MaxAdded == 12           \* entries passed to addToHistory over all users

\* ------------------------------------------------------- program constants
maxReconnectAttempts == 10
BaseDelay == 1000
DelayCap == 30000
NotAuthorized == 401
RetentionWindow == 86400000       \* 24 * 60 * 60 * 1000 ms
maxHistory == 10

Users == 1..MaxUsers

HandleIds == 1..MaxHandles
NoHandle == 0
\* status codes a close can carry; 0 stands for an update without
\* lastDisconnect.error.output.statusCode (undefined)
CloseReasons == {0, NotAuthorized, 500}
Callers == {"start", "timer"}

VARIABLES
    phase,              \* position of the main script: constructed / initialised / started
    exited,             \* "no", or why process.exit was called
    connectionState,    \* this.connectionState
    isConnected,        \* this.isConnected
    reconnectAttempts,  \* this.reconnectAttempts
    sock,               \* this.sock (NoHandle = null)
    errors,             \* this.stats.errors
    reconnects,         \* this.stats.reconnects
    handles,            \* transport-side status of each handle
    timers,             \* number of pending reconnect timers
    inflight,           \* bag of connect() calls suspended at an await: <<caller, stage>>
    announce,           \* pending sendStartupNotification timers
    task,               \* the running handleMessagesUpsert call (one batch)
    messagesProcessed,  \* this.stats.messagesProcessed
    commandsExecuted,   \* this.stats.commandsExecuted
    settings,           \* the chatbot toggles held by the settings store
    rejections,         \* promise rejections that reached the process-level handler
    initialized,        \* MessageCache.initialized
    db,                 \* the messages table: primary key -> row (NoRow: absent)
    totalMessages,      \* MessageCache.stats.totalMessages
    now,                \* the wall clock read by Date.now(), in milliseconds
    answer,             \* history: the last MessageCache call and what it resolved to
    files,              \* the command sources on disk: path -> content
    requireCache,       \* require.cache: path -> module (NoModule: not cached)
    commands,           \* CommandHandler.commands, the Map name -> descriptor
    changes,            \* number of changes made to the command sources
    returned,           \* history: the last CommandHandler call and what it returned
    deletedRecovered,   \* MessageCache.stats.deletedRecovered
    history,            \* Chatbot.history: user -> the entries kept
    added,              \* history: user -> every entry passed to addToHistory
    pending,            \* the users with a chat() call suspended at its provider
    last                \* history: the last step taken

lifecycleVars == <<phase, exited, connectionState, isConnected, reconnectAttempts, sock,
                   errors, reconnects, handles, timers, inflight, announce>>
routerVars == <<task, messagesProcessed, commandsExecuted>>
storeVars == <<settings, rejections>>
cacheVars == <<initialized, db, totalMessages, now, answer>>
registryVars == <<files, requireCache, commands, changes, returned>>
moduleVars == <<deletedRecovered, history, added, pending>>
vars == <<lifecycleVars, routerVars, storeVars, cacheVars, registryVars, moduleVars, last>>

Alive == exited = "no"

Min(a, b) == IF a < b THEN a ELSE b

\* history record of a step: what it was, the close reason it carried, the value
\* of reconnectAttempts it found, the delay it passed to setTimeout (0: none),
\* and the number of reconnects scheduled since the last open
Step(kind, reason, before, delay) ==
    [kind |-> kind, reason |-> reason, before |-> before, delay |-> delay,
     sinceOpen |-> last.sinceOpen]

FirstStep == [kind |-> "other", reason |-> 0, before |-> 0, delay |-> 0, sinceOpen |-> 0]

\* what decides the route of a message through handleMessagesUpsert:
\*   malformed  no key.remoteJid : the first statement of the try block throws
\*   command    extracted text starts with the prefix
\*   chat       non-empty text without the prefix, not sent by the bot itself
\*   plain      a payload without text
\*   empty      no payload (msg.message absent): nothing to cache, no text
Shapes == {"malformed", "command", "chat", "plain", "empty"}
\* further shapes that only the chat path tells apart:
\*   own         a text without the prefix sent by the bot's own account
\*   ownCommand  a text with the prefix sent by the bot's own account
\*   group       a text without the prefix sent by another account in a group
\*   blank       a text of white space only
ChatShapes == Shapes \cup {"own", "ownCommand", "group", "blank"}

\* this.config.PREFIX, and the text of each shape as a sequence of characters
PREFIX == <<"!">>
TextOf(m) ==
    CASE m \in {"command", "ownCommand"} -> <<"!", "m">>
      [] m = "chat" -> <<"h", "!">>
      [] m \in {"own", "group"} -> <<"h">>
      [] m = "blank" -> <<" ">>
      [] OTHER -> <<>>
FromMe(m) == m \in {"own", "ownCommand"}
IsGroup(m) == m = "group"
Batches == UNION {[1..n -> Shapes] : n \in 1..MaxBatchLen}
BatchTypes == {"notify", "append"}

\* task.write is the state of the cache write of each message; entered, raised
\* and counted are history: the messages whose try block was entered, those in
\* whose handling a failure was raised, and the increments of stats.errors each
\* caused.  chat and replied are history of the chat path: what became of the
\* call to chatbot.chat made for a message ("none": no call), and the messages
\* for which a chat reply was sent.
IdleTask == [pc |-> "idle", msgs |-> <<>>, idx |-> 0, write |-> <<>>,
             entered |-> {}, raised |-> <<>>, counted |-> <<>>,
             chat |-> <<>>, replied |-> {}]

\* ---------------------------------------------------------- settings store
\* a toggle of the settings store: never written, switched on, switched off
Toggles == {"unset", "on", "off"}
DefaultSettings == [group |-> "unset", user |-> "unset"]
AllSettings == [group : Toggles, user : Toggles]

\* ------------------------------------------------------------ MessageCache
Ids == 1..MaxIds
Chats == 1..MaxChats
NoChat == 0              \* getMessage called without chatId (null)
NoPayload == [absent |-> TRUE]
NoRow == [absent |-> TRUE]

\* msg.message: the content objects present in it, and those of them whose
\* text (conversation, text, caption) is a non-empty string.  An empty
\* conversation string is falsy in every test the cache makes, so a
\* conversation is present exactly when it is worded.
Parts == {"conversation", "extended", "image", "video", "audio", "document", "sticker"}
TextParts == {"conversation", "extended", "image", "video", "document"}
Payloads ==
    {p \in [has : SUBSET Parts, worded : SUBSET TextParts] :
        /\ Cardinality(p.has) <= MaxParts
        /\ p.worded \subseteq p.has
        /\ "conversation" \in p.has => "conversation" \in p.worded}

Conversation == [has |-> {"conversation"}, worded |-> {"conversation"}]
CaptionedImage == [has |-> {"image"}, worded |-> {"image"}]

\* the clock starts one retention window after the epoch and advances by TickMs
StartTime == RetentionWindow
TickMs == 500

\* history of the cache calls: the call, its arguments, what it resolved to, and
\* the row written by the call just before it (NoRow unless that call was a
\* successful addMessage), and the row an addMessage found under its key
NoAnswer == [op |-> "none", id |-> 0, chat |-> NoChat, value |-> NoRow, prior |-> NoRow,
             replaced |-> NoRow]

\* --------------------------------------------------------- CommandHandler
\* The command sources: two category sources, each a file named after its
\* command, and one flat source exporting several commands.  LoadOrder is the
\* order in which loadCommands reads them: the categories in the order of
\* this.categories (public, group, admin, owner), then the flat files.
Paths == {"public/ping", "admin/ping", "flat"}
LoadOrder == <<"public/ping", "admin/ping", "flat">>
IsCategory(path) == path \in {"public/ping", "admin/ping"}

\* this.categories, in the order of its keys
CategoryOrder == <<"public", "group", "admin", "owner">>
\* what a command may declare as its category: nothing, one of the four, another
Declared == {"undeclared", "owner", "fun"}
\* the directory of a category source
DirOf(path) == IF path = "public/ping" THEN "public" ELSE "admin"
\* category: command.category || category for a category source,
\* commandDef.category || 'public' for a flat source
CategoryOf(path, m) ==
    IF m.category # "undeclared" THEN m.category
    ELSE IF IsCategory(path) THEN DirOf(path) ELSE "public"

\* a command name: its letters (base) and their case as written
Cases == {"lower", "Capital", "UPPER"}
Lower(base) == [base |-> base, caps |-> "lower"]
\* String.prototype.toLowerCase
toLowerCase(name) == [name EXCEPT !.caps = "lower"]
\* the name a category source registers: path.basename(file, '.js')
Basename(path) == Lower("ping")
\* the keys a flat source may export
FlatKeys == {Lower("ping"), [base |-> "kick", caps |-> "Capital"]}
\* what a user may type after the prefix
Typed == [base : {"ping", "kick", "nope"}, caps : {"lower", "UPPER"}]

\* content of a source: absent, failing when required, or a module defining
\* commands; rev tells one content of a path from another
NoFile == [state |-> "absent"]
BrokenFile == [state |-> "broken"]
GoodFile(path, keys, rev) ==
    [state |-> "good", keys |-> IF IsCategory(path) THEN {Basename(path)} ELSE keys, rev |-> rev,
     category |-> "undeclared"]
\* a module whose commands declare their own category
DeclaredFile(path, keys, rev, category) == [GoodFile(path, keys, rev) EXCEPT !.category = category]
Contents(path, rev) ==
    {NoFile, BrokenFile} \cup {GoodFile(path, keys, rev) : keys \in SUBSET FlatKeys}

NoModule == [state |-> "none"]
NoCommand == [state |-> "none"]
EmptyTable == [n \in {} |-> NoCommand]
NoOutcome == [op |-> "none"]

\* ------------------------------------------------------------ constructor
\* the state after construction, with command sources f on disk
Constructed(f) ==
    /\ phase = "constructed"
    /\ exited = "no"
    /\ connectionState = "disconnected"
    /\ isConnected = FALSE
    /\ reconnectAttempts = 0
    /\ sock = NoHandle
    /\ errors = 0
    /\ reconnects = 0
    /\ handles = [h \in HandleIds |-> "unused"]
    /\ timers = 0
    /\ inflight = EmptyBag
    /\ announce = 0
    /\ task = IdleTask
    /\ messagesProcessed = 0
    /\ commandsExecuted = 0
    /\ settings = DefaultSettings
    /\ rejections = 0
    /\ initialized = FALSE
    /\ db = [k \in Ids |-> NoRow]
    /\ totalMessages = 0
    /\ now = StartTime
    /\ answer = NoAnswer
    /\ files = f
    /\ requireCache = [p \in Paths |-> NoModule]
    /\ commands = EmptyTable
    /\ changes = 0
    /\ returned = NoOutcome
    /\ deletedRecovered = 0
    /\ history = [u \in Users |-> << >>]
    /\ added = [u \in Users |-> << >>]
    /\ pending = {}
    /\ last = FirstStep

Init == Constructed([p \in Paths |-> NoFile])

\* ------------------------------------------------------------------- init
\* init(): the store is created and read; any throw is fatal.
init ==
    /\ Alive
    /\ UNCHANGED <<routerVars, storeVars, cacheVars, registryVars, moduleVars>>
    /\ phase = "constructed"
    /\ \/ /\ phase' = "initialised"
          /\ exited' = exited
          /\ last' = Step("other", 0, 0, 0)
       \/ /\ exited' = "init"
          /\ phase' = phase
          /\ last' = Step("initFailed", 0, 0, 0)
    /\ UNCHANGED <<connectionState, isConnected, reconnectAttempts, sock, errors, reconnects,
                   handles, timers, inflight, announce>>

\* ---------------------------------------------------------------- connect
ConnectBegin_stateNotSet(caller) ==
    /\ connectionState' = connectionState
    /\ inflight' = inflight (+) SetToBag({<<caller, "check">>})

\* connect() up to its first await (fs.pathExists).
ConnectBegin(caller) ==
    /\ connectionState' = "connecting"
    /\ inflight' = inflight (+) SetToBag({<<caller, "check">>})

\* startBot(): calls bot.connect().
startBot ==
    /\ Alive
    /\ UNCHANGED <<routerVars, storeVars, cacheVars, registryVars, moduleVars>>
    /\ phase = "initialised"
    /\ phase' = "started"
    /\ ConnectBegin("start")
    /\ last' = Step("other", 0, 0, 0)
    /\ UNCHANGED <<exited, isConnected, reconnectAttempts, sock, errors, reconnects,
                   handles, timers, announce>>

\* The catch block of connect() followed by what the caller does with `false`:
\* startBot exits, the reconnect timer callback ignores the result.
ConnectFailed_alwaysFatal(caller) ==
    /\ errors' = errors + 1
    /\ exited' = "startfail"
    /\ UNCHANGED <<phase, connectionState, isConnected, reconnectAttempts, sock, reconnects,
                   handles, timers, announce>>

ConnectFailed(caller) ==
    /\ errors' = errors + 1
    /\ exited' = IF caller = "start" THEN "startfail" ELSE exited
    /\ UNCHANGED <<phase, connectionState, isConnected, reconnectAttempts, sock, reconnects,
                   handles, timers, announce>>

\* what fs.pathExists('./session/creds.json') can give
PathResults == {"present", "absent", "error"}

AfterPathExists_absentThrows(caller, res) ==
    /\ inflight' = IF res = "present"
                   THEN (inflight (-) SetToBag({<<caller, "check">>}))
                            (+) SetToBag({<<caller, "load">>})
                   ELSE inflight (-) SetToBag({<<caller, "check">>})
    /\ IF res = "present"
       THEN UNCHANGED <<phase, exited, connectionState, isConnected, reconnectAttempts,
                        sock, errors, reconnects, handles, timers, announce>>
       ELSE ConnectFailed(caller)

\* connect() resumed after fs.pathExists: the session check
AfterPathExists(caller, res) ==
    /\ inflight' = IF res = "present"
                   THEN (inflight (-) SetToBag({<<caller, "check">>}))
                            (+) SetToBag({<<caller, "load">>})
                   ELSE inflight (-) SetToBag({<<caller, "check">>})
    /\ CASE res = "absent" ->
              /\ exited' = "nosession"
              /\ UNCHANGED <<phase, connectionState, isConnected, reconnectAttempts, sock,
                             errors, reconnects, handles, timers, announce>>
         [] res = "present" ->
              UNCHANGED <<phase, exited, connectionState, isConnected, reconnectAttempts,
                          sock, errors, reconnects, handles, timers, announce>>
         [] OTHER -> ConnectFailed(caller)

FailedStep(caller) == IF caller = "start" THEN "startFailed" ELSE "reconnectFailed"

ConnectCheckSession(caller) ==
    /\ Alive
    /\ UNCHANGED <<routerVars, storeVars, cacheVars, registryVars, moduleVars>>
    /\ BagIn(<<caller, "check">>, inflight)
    /\ \E res \in PathResults :
          /\ res = "error" => errors < MaxErrors
          /\ AfterPathExists(caller, res)
          /\ last' = Step(CASE res = "absent" -> "sessionAbsent"
                            [] res = "present" -> "other"
                            [] OTHER -> FailedStep(caller), 0, 0, 0)

FreeHandles == {h \in HandleIds : handles[h] \in {"unused", "closed"}}

\* connect() resumed after useMultiFileAuthState / fetchLatestBaileysVersion:
\* makeWASocket, store.bind, setupEventHandlers; any throw goes to the catch block
ConnectCreateSocket(caller) ==
    /\ Alive
    /\ UNCHANGED <<routerVars, storeVars, cacheVars, registryVars, moduleVars>>
    /\ BagIn(<<caller, "load">>, inflight)
    /\ inflight' = inflight (-) SetToBag({<<caller, "load">>})
    /\ \/ /\ FreeHandles # {}
          /\ LET h == CHOOSE x \in FreeHandles : \A y \in FreeHandles : x <= y
             IN /\ sock' = h
                /\ handles' = [handles EXCEPT ![h] = "connecting"]
          /\ last' = Step("other", 0, 0, 0)
          /\ UNCHANGED <<phase, exited, connectionState, isConnected, reconnectAttempts, errors,
                         reconnects, timers, announce>>
       \/ /\ errors < MaxErrors
          /\ ConnectFailed(caller)
          /\ last' = Step(FailedStep(caller), 0, 0, 0)

\* ------------------------------------------------- handleConnectionUpdate
shouldReconnect_wrongCode(reason) == reason # 500

shouldReconnect(reason) == reason # NotAuthorized

CanRetry_offByOne == reconnectAttempts <= maxReconnectAttempts

CanRetry == reconnectAttempts < maxReconnectAttempts

BackoffDelay_uncapped(n) == BaseDelay * 2 ^ n

\* delay computed after reconnectAttempts++ ; n is the incremented counter
BackoffDelay(n) == Min(BaseDelay * 2 ^ n, DelayCap)

\* an open branch that keeps the counter of the failed attempts
HandleOpen_noReset ==
    /\ connectionState' = "connected"
    /\ isConnected' = TRUE
    /\ announce' = announce + 1
    /\ last' = [Step("open", 0, 0, 0) EXCEPT !.sinceOpen = 0]
    /\ UNCHANGED <<phase, exited, reconnectAttempts, sock, errors, reconnects, timers, inflight>>

\* the open branch; the presence timer it may set touches no field
HandleOpen ==
    /\ connectionState' = "connected"
    /\ isConnected' = TRUE
    /\ reconnectAttempts' = 0
    /\ announce' = announce + 1
    /\ last' = [Step("open", 0, 0, 0) EXCEPT !.sinceOpen = 0]
    /\ UNCHANGED <<phase, exited, sock, errors, reconnects, timers, inflight>>

HandleClose(reason) ==
    /\ connectionState' = "disconnected"
    /\ isConnected' = FALSE
    /\ IF shouldReconnect(reason) /\ CanRetry
       THEN /\ reconnectAttempts' = reconnectAttempts + 1
            /\ timers' = timers + 1
            /\ reconnects' = reconnects + 1
            /\ exited' = exited
            /\ last' = [Step("close", reason, reconnectAttempts,
                             BackoffDelay(reconnectAttempts + 1))
                            EXCEPT !.sinceOpen = @ + 1]
       ELSE /\ exited' = IF ~shouldReconnect(reason) THEN "auth" ELSE exited
            /\ last' = Step("close", reason, reconnectAttempts, 0)
            /\ UNCHANGED <<reconnectAttempts, timers, reconnects>>
    /\ UNCHANGED <<phase, sock, errors, inflight, announce>>

\* the setTimeout callback scheduled by the close branch
TimerFire ==
    /\ Alive
    /\ UNCHANGED <<routerVars, storeVars, cacheVars, registryVars, moduleVars>>
    /\ timers > 0
    /\ timers' = timers - 1
    /\ ConnectBegin("timer")
    /\ last' = Step("other", 0, 0, 0)
    /\ UNCHANGED <<phase, exited, isConnected, reconnectAttempts, sock, errors, reconnects,
                   handles, announce>>

\* what this.sock.sendMessage can do for the startup notification
SendResults == {"sent", "failed"}

\* a notification whose failure escapes as an unhandled rejection
AnnounceFailed_uncaught == rejections' = rejections + 1

\* the catch block of sendStartupNotification logs a warning
AnnounceFailed == rejections' = rejections

\* the setTimeout callback scheduled by the open branch: sendStartupNotification
\* builds the text and awaits sendMessage inside one try block; the send can
\* succeed only on a handle that is open
AnnounceFire(res) ==
    /\ Alive
    /\ UNCHANGED <<routerVars, settings, cacheVars, registryVars, moduleVars>>
    /\ announce > 0
    /\ res = "sent" => (sock # NoHandle /\ handles[sock] = "open")
    /\ announce' = announce - 1
    /\ IF res = "failed" THEN AnnounceFailed ELSE rejections' = rejections
    /\ last' = Step(IF res = "sent" THEN "announced" ELSE "announceFailed", 0, 0, 0)
    /\ UNCHANGED <<phase, exited, connectionState, isConnected, reconnectAttempts, sock, errors,
                   reconnects, handles, timers, inflight>>

\* ------------------------------------------------------------ environment
\* within the bounds of the model, a close may schedule one more timer
RoomForTimer ==
    /\ timers + BagCardinality(inflight) < MaxPending
    /\ reconnects < MaxReconnects

TransportOpen(h) ==
    /\ Alive
    /\ UNCHANGED <<routerVars, storeVars, cacheVars, registryVars, moduleVars>>
    /\ handles[h] = "connecting"
    /\ announce < MaxAnnounce
    /\ handles' = [handles EXCEPT ![h] = "open"]
    /\ HandleOpen

TransportClose(h, reason) ==
    /\ Alive
    /\ UNCHANGED <<routerVars, storeVars, cacheVars, registryVars, moduleVars>>
    /\ handles[h] \in {"connecting", "open"}
    /\ RoomForTimer
    /\ handles' = [handles EXCEPT ![h] = "closed"]
    /\ HandleClose(reason)

\* a handle that already reported a close reports another one; the handler
\* subscribed on it is still in place
TransportDuplicateClose(h, reason) ==
    /\ Alive
    /\ UNCHANGED <<routerVars, storeVars, cacheVars, registryVars, moduleVars>>
    /\ handles[h] = "closed"
    /\ RoomForTimer
    /\ handles' = handles
    /\ HandleClose(reason)


\* ------------------------------------------------- handleMessagesUpsert
\* first message at or after position i whose try block does not throw at once
RECURSIVE NextWellFormed(_, _)
NextWellFormed(msgs, i) ==
    IF i > Len(msgs) \/ msgs[i] # "malformed" THEN i ELSE NextWellFormed(msgs, i + 1)

\* a failure reached the catch block of the loop for each message in ks
CaughtInLoop(t, ks) ==
    [t EXCEPT !.entered = @ \cup ks,
              !.raised = [k \in DOMAIN t.raised |-> t.raised[k] \/ k \in ks],
              !.counted = [k \in DOMAIN t.counted |-> t.counted[k] + IF k \in ks THEN 1 ELSE 0]]

\* The loop from position i up to its next suspension point: malformed
\* messages throw and are caught, the first other message is logged, handed to
\* messageCache.cacheMessage (not awaited), counted, and the loop suspends in
\* `await this.autoFeatures.processMessage(msg)`.  cacheMessage is the write
\* operation of the cache (MessageCache.addMessage): it returns at once for a
\* message without payload and otherwise completes in a database callback.
RunLoopFrom(t, i, errs) ==
    LET j == NextWellFormed(t.msgs, i)
        t1 == CaughtInLoop(t, i..(j - 1))
    IN /\ errors' = errs + (j - i)
       /\ IF j > Len(t.msgs)
          THEN /\ task' = [t1 EXCEPT !.pc = "done", !.idx = j]
               /\ messagesProcessed' = messagesProcessed
          ELSE /\ task' = [t1 EXCEPT !.pc = "auto", !.idx = j,
                                      !.write[j] = IF t.msgs[j] = "empty"
                                                   THEN "none" ELSE "pending",
                                      !.entered = @ \cup {j}]
               /\ messagesProcessed' = messagesProcessed + 1

Ignored_never(type) == FALSE

\* the first statement of handleMessagesUpsert: `if (type !== 'notify') return`
Ignored(type) == type # "notify"

\* transport event messages.upsert.  The batch whose handling is followed is
\* delivered to an idle router; a batch of another kind may arrive at any time.
DeliverBatch(msgs, type) ==
    /\ Alive
    /\ type = "notify" => task.pc = "idle"
    /\ \E h \in HandleIds : handles[h] = "open"
    /\ last' = Step(IF type = "notify" THEN "batch" ELSE "batchIgnored", 0, 0, 0)
    /\ IF Ignored(type)
       THEN UNCHANGED <<task, messagesProcessed, errors>>
       ELSE RunLoopFrom([pc |-> "idle", msgs |-> msgs, idx |-> 0,
                         write |-> [k \in DOMAIN msgs |-> "none"],
                         entered |-> {},
                         raised |-> [k \in DOMAIN msgs |-> FALSE],
                         counted |-> [k \in DOMAIN msgs |-> 0],
                         chat |-> [k \in DOMAIN msgs |-> "none"],
                         replied |-> {}], 1, errors)
    /\ UNCHANGED <<phase, exited, connectionState, isConnected, reconnectAttempts, sock,
                   reconnects, handles, timers, inflight, announce, commandsExecuted>>
    /\ UNCHANGED <<storeVars, cacheVars, registryVars, moduleVars>>

\* String.prototype.startsWith
StartsWith(text, prefix) ==
    /\ Len(text) >= Len(prefix)
    /\ SubSeq(text, 1, Len(prefix)) = prefix

\* extractMessageText(msg)
extractMessageText(m) == TextOf(m)

IsCommandText_anywhere(text) == \E i \in DOMAIN text : <<text[i]>> = PREFIX

\* the test of the command branch: `text && text.startsWith(this.config.PREFIX)`
IsCommandText(text) == text # <<>> /\ StartsWith(text, PREFIX)

shouldRespondToChatbot(m) ==
    /\ ~FromMe(m)
    /\ extractMessageText(m) # <<>>
    /\ ~StartsWith(extractMessageText(m), PREFIX)

\* `text.trim().length === 0`
TrimIsEmpty(text) == \A i \in DOMAIN text : text[i] = " "

chatbotEnabled_either(isGroup, s) ==
    IF isGroup THEN s.group # "off" \/ s.user # "off" ELSE s.user # "off"

\* handleChatbot: the toggles read from the settings store
chatbotEnabled(isGroup, s) ==
    IF isGroup THEN s.group # "off" /\ s.user # "off" ELSE s.user # "off"

\* The loop resumes from `await this.autoFeatures.processMessage(msg)`, classifies
\* the message and runs to its next suspension point: the await of
\* commandHandler.handleCommand in handleCommand, the await of chatbot.chat in
\* handleChatbot, or the auto-features of the next message.
AutoFeaturesDone(ok) ==
    /\ Alive
    /\ task.pc = "auto"
    /\ IF ~ok
       THEN /\ RunLoopFrom(CaughtInLoop(task, {task.idx}), task.idx + 1, errors + 1)
            /\ last' = Step("messageFailed", 0, 0, 0)
       ELSE /\ last' = Step("classified", 0, 0, 0)
            /\ LET m == task.msgs[task.idx]
                   text == extractMessageText(m)
               IN CASE IsCommandText(text) ->
                         /\ task' = [task EXCEPT !.pc = "command"]
                         /\ UNCHANGED <<errors, messagesProcessed>>
                    [] /\ ~IsCommandText(text)
                       /\ ~FromMe(m) /\ shouldRespondToChatbot(m)
                       /\ ~TrimIsEmpty(text)
                       /\ chatbotEnabled(IsGroup(m), settings) ->
                         /\ task' = [task EXCEPT !.pc = "chat", !.chat[task.idx] = "asked"]
                         /\ UNCHANGED <<errors, messagesProcessed>>
                    [] OTHER -> RunLoopFrom(task, task.idx + 1, errors)
    /\ UNCHANGED <<phase, exited, connectionState, isConnected, reconnectAttempts, sock,
                   reconnects, handles, timers, inflight, announce, commandsExecuted>>
    /\ UNCHANGED <<storeVars, cacheVars, registryVars, moduleVars>>

\* handleCommand(msg, text) has returned.  Whatever it throws is caught by its
\* own catch block, which counts the error.
\*   "executed"  commandHandler.handleCommand returned success
\*   "replied"   it returned a failure result and the reply was sent
\*   "threw"     commandHandler.handleCommand or sendMessage threw
CommandOutcomes == {"executed", "replied", "threw"}

HandleCommandCatch(t) ==
    [t EXCEPT !.raised[t.idx] = TRUE, !.counted[t.idx] = @ + 1]

CommandDone(outcome) ==
    /\ Alive
    /\ task.pc = "command"
    /\ commandsExecuted' = commandsExecuted + IF outcome = "executed" THEN 1 ELSE 0
    /\ IF outcome = "threw"
       THEN /\ RunLoopFrom(HandleCommandCatch(task), task.idx + 1, errors + 1)
            /\ last' = Step("commandFailed", 0, 0, 0)
       ELSE /\ RunLoopFrom(task, task.idx + 1, errors)
            /\ last' = Step("other", 0, 0, 0)
    /\ UNCHANGED <<phase, exited, connectionState, isConnected, reconnectAttempts, sock,
                   reconnects, handles, timers, inflight, announce>>
    /\ UNCHANGED <<storeVars, cacheVars, registryVars, moduleVars>>

\* handleChatbot(msg, text) has returned.  Whatever it throws (settings lookup,
\* chatbot.chat, sendMessage) is caught by its own catch block, which logs it.
HandleChatbotCatch(t) ==
    [t EXCEPT !.raised[t.idx] = TRUE]

\* what chatbot.chat resolved to and what handleChatbot did with it:
\*   "replied"         { success: true }: the reply was sent
\*   "providerFailed"  { success: false, response: fallbackResponse(prompt) }:
\*                     the provider call failed or timed out
\*   "threw"           { success: true } and sendMessage (or the logger) threw
ChatOutcomes == {"replied", "providerFailed", "threw"}

\* handleChatbot after `await this.chatbot.chat(...)`: the reply is sent only
\* `if (response.success)`
AfterChat(t, outcome) ==
    CASE outcome = "replied" ->
            [t EXCEPT !.chat[t.idx] = "answered", !.replied = @ \cup {t.idx}]
      [] outcome = "providerFailed" ->
            [t EXCEPT !.chat[t.idx] = "failed"]
      [] OTHER ->
            HandleChatbotCatch([t EXCEPT !.chat[t.idx] = "answered"])

ChatbotDone(outcome) ==
    /\ Alive
    /\ task.pc = "chat"
    /\ RunLoopFrom(AfterChat(task, outcome), task.idx + 1, errors)
    /\ last' = Step(IF outcome = "threw" THEN "chatFailed" ELSE "other", 0, 0, 0)
    /\ UNCHANGED <<phase, exited, connectionState, isConnected, reconnectAttempts, sock,
                   reconnects, handles, timers, inflight, announce, commandsExecuted>>
    /\ UNCHANGED <<storeVars, cacheVars, registryVars, moduleVars>>

\* the database callback of the cache write issued for message i
CacheWriteComplete(i, ok) ==
    /\ Alive
    /\ i \in DOMAIN task.write
    /\ task.write[i] = "pending"
    /\ task' = [task EXCEPT !.write[i] = IF ok THEN "stored" ELSE "failed"]
    /\ last' = Step("other", 0, 0, 0)
    /\ UNCHANGED <<phase, exited, connectionState, isConnected, reconnectAttempts, sock, errors,
                   reconnects, handles, timers, inflight, announce, messagesProcessed,
                   commandsExecuted>>
    /\ UNCHANGED <<storeVars, cacheVars, registryVars, moduleVars>>

\* a batch that is not of kind notify is not looked into: one message stands for any
RouterNext ==
    \/ \E b \in Batches : DeliverBatch(b, "notify")
    \/ \E m \in Shapes, ty \in BatchTypes \ {"notify"} : DeliverBatch(<<m>>, ty)
    \/ \E ok \in BOOLEAN : AutoFeaturesDone(ok)
    \/ \E o \in CommandOutcomes : CommandDone(o)
    \/ \E o \in ChatOutcomes : ChatbotDone(o)
    \/ \E i \in 1..MaxBatchLen, ok \in BOOLEAN : CacheWriteComplete(i, ok)

\* ------------------------------------------------- other transport events
EventKinds == {"groups.update", "group-participants.update", "messages.reaction",
               "call", "presence.update", "chats.update"}

\* where a failure is raised in a handler: nowhere, inside a try block of the
\* handler, or outside every try block
FailureSites == {"none", "guarded", "unguarded"}

\* handleGroupsUpdate, handleGroupParticipantsUpdate and handleIncomingCall
\* (auto-reject branch) wrap their work in try/catch; the other handlers do not
HasTryBlock(kind) == kind \in {"groups.update", "group-participants.update", "call"}

UnhandledRejection_default ==
    /\ exited' = "crash"
    /\ rejections' = rejections

\* process.on('unhandledRejection'): the rejection is logged
UnhandledRejection ==
    /\ exited' = exited
    /\ rejections' = rejections + 1

\* a handler that marks the session disconnected when its work fails
HandleEvent_dropsSession(kind, site) ==
    /\ Alive
    /\ \E h \in HandleIds : handles[h] = "open"
    /\ site = "guarded" => HasTryBlock(kind)
    /\ IF site = "unguarded"
       THEN /\ rejections < MaxRejections
            /\ UnhandledRejection
       ELSE UNCHANGED <<exited, rejections>>
    /\ connectionState' = IF site = "none" THEN connectionState ELSE "disconnected"
    /\ last' = Step(IF site = "none" THEN "event" ELSE "eventFailed", 0, 0, 0)
    /\ UNCHANGED <<phase, isConnected, reconnectAttempts, sock, errors,
                   reconnects, handles, timers, inflight, announce>>
    /\ UNCHANGED <<routerVars, settings, cacheVars, registryVars, moduleVars>>

\* A handler subscribed by setupEventHandlers runs for an event of its kind.  A
\* failure inside a try block is caught and logged by the handler; any other
\* failure rejects the promise of the async subscriber, which nothing awaits.
HandleEvent(kind, site) ==
    /\ Alive
    /\ \E h \in HandleIds : handles[h] = "open"
    /\ site = "guarded" => HasTryBlock(kind)
    /\ IF site = "unguarded"
       THEN /\ rejections < MaxRejections
            /\ UnhandledRejection
       ELSE UNCHANGED <<exited, rejections>>
    /\ last' = Step(IF site = "none" THEN "event" ELSE "eventFailed", 0, 0, 0)
    /\ UNCHANGED <<phase, connectionState, isConnected, reconnectAttempts, sock, errors,
                   reconnects, handles, timers, inflight, announce>>
    /\ UNCHANGED <<routerVars, settings, cacheVars, registryVars, moduleVars>>

\* ------------------------------------------------------------ MessageCache
\* a message offered to the cache: key.id, key.remoteJid, messageTimestamp
\* (seconds; 0: absent) and message (NoPayload: absent)
KeyMessages ==
    [id : Ids, chat : Chats, stamp : {0}, payload : {Conversation, CaptionedImage, NoPayload}]
TimedMessages ==
    [id : Ids, chat : {1}, stamp : 0..MaxStamp, payload : {Conversation}]
ShapedMessages ==
    [id : {1}, chat : {1}, stamp : {0}, payload : Payloads \cup {NoPayload}]

detectMessageType_textFirst(p) ==
    CASE p = NoPayload -> "unknown"
      [] p # NoPayload /\ {"conversation", "extended"} \cap p.has # {} -> "text"
      [] p # NoPayload /\ "image" \in p.has -> "image"
      [] OTHER -> "unknown"

detectMessageType(p) ==
    IF p = NoPayload THEN "unknown"
    ELSE IF "image" \in p.has THEN "image"
    ELSE IF "video" \in p.has THEN "video"
    ELSE IF "audio" \in p.has THEN "audio"
    ELSE IF "document" \in p.has THEN "document"
    ELSE IF "sticker" \in p.has THEN "sticker"
    ELSE IF "conversation" \in p.has \/ "extended" \in p.has THEN "text"
    ELSE "unknown"

\* the text chosen is named after the content object it was taken from
extractText(p) ==
    IF p = NoPayload THEN ""
    ELSE IF "conversation" \in p.worded THEN "conversation"
    ELSE IF "extended" \in p.worded THEN "extended"
    ELSE IF "image" \in p.worded THEN "image"
    ELSE IF "video" \in p.worded THEN "video"
    ELSE IF "document" \in p.worded THEN "document"
    ELSE ""

\* `msg.messageTimestamp * 1000 || Date.now()`
TimestampOf(msg) == IF msg.stamp * 1000 # 0 THEN msg.stamp * 1000 ELSE now

\* the values bound to the INSERT; messageData is JSON.stringify(msg)
RowOf(msg) ==
    [id |-> msg.id, chatId |-> msg.chat, timestamp |-> TimestampOf(msg),
     messageType |-> detectMessageType(msg.payload),
     textContent |-> extractText(msg.payload),
     messageData |-> msg.payload]

Upsert_ignore(table, row) ==
    IF table[row.id] = NoRow THEN [table EXCEPT ![row.id] = row] ELSE table

\* INSERT OR REPLACE INTO messages: the table has `id TEXT PRIMARY KEY`
Upsert(table, row) == [table EXCEPT ![row.id] = row]

CacheFrame == UNCHANGED <<lifecycleVars, routerVars, storeVars, registryVars, moduleVars, last>>

\* the callbacks of initDatabase have run
DatabaseReady ==
    /\ ~initialized
    /\ initialized' = TRUE
    /\ UNCHANGED <<db, totalMessages, now, answer>>
    /\ CacheFrame

\* addMessage(msg) with its caller awaiting the promise: the statement and its
\* callback.  dbOk: the INSERT went through (err is null).
addMessage(msg, dbOk) ==
    /\ IF ~initialized \/ msg.payload = NoPayload \/ ~dbOk
       THEN /\ answer' = [op |-> "add", id |-> msg.id, chat |-> msg.chat,
                          value |-> NoRow, prior |-> NoRow, replaced |-> NoRow]
            /\ UNCHANGED <<db, totalMessages>>
       ELSE /\ totalMessages < MaxTotal
            /\ db' = Upsert(db, RowOf(msg))
            /\ totalMessages' = totalMessages + 1
            /\ answer' = [op |-> "add", id |-> msg.id, chat |-> msg.chat,
                          value |-> RowOf(msg), prior |-> NoRow, replaced |-> db[msg.id]]
    /\ UNCHANGED <<initialized, now>>
    /\ CacheFrame

\* getMessage(messageId, chatId = null)
getMessage(id, chat) ==
    /\ answer' = [op |-> "get", id |-> id, chat |-> chat,
                  value |-> IF /\ initialized
                               /\ db[id] # NoRow
                               /\ chat # NoChat => db[id].chatId = chat
                            THEN db[id] ELSE NoRow,
                  prior |-> IF answer.op = "add" THEN answer.value ELSE NoRow,
                  replaced |-> NoRow]
    /\ UNCHANGED <<initialized, db, totalMessages, now>>
    /\ CacheFrame

Expired_inclusive(row, t) == row.timestamp <= t - RetentionWindow

\* `DELETE FROM messages WHERE timestamp < ?` with oneDayAgo
Expired(row, t) == row.timestamp < t - RetentionWindow

\* cleanupOldMessages(); value.cleaned is what `SELECT changes()` reports
cleanupOldMessages ==
    /\ initialized
    /\ db' = [k \in Ids |-> IF db[k] # NoRow /\ Expired(db[k], now) THEN NoRow ELSE db[k]]
    /\ answer' = [op |-> "sweep", id |-> 0, chat |-> NoChat,
                  value |-> [cleaned |-> Cardinality({k \in Ids : db'[k] # db[k]})],
                  prior |-> NoRow, replaced |-> NoRow]
    /\ UNCHANGED <<initialized, totalMessages, now>>
    /\ CacheFrame

\* deleteMessage(messageId): `DELETE FROM messages WHERE id = ?`
deleteMessage(id) ==
    /\ db' = IF initialized THEN [db EXCEPT ![id] = NoRow] ELSE db
    /\ answer' = [op |-> "delete", id |-> id, chat |-> NoChat,
                  value |-> [deleted |-> initialized], prior |-> NoRow, replaced |-> NoRow]
    /\ UNCHANGED <<initialized, totalMessages, now>>
    /\ CacheFrame

\* the transport reports that message id of chat was revoked (messages.update,
\* messages.delete): setupEventHandlers subscribes to neither event, so no
\* handler runs
Revocation(id, chat) ==
    /\ answer' = [op |-> "revoke", id |-> id, chat |-> chat,
                  value |-> NoRow, prior |-> NoRow, replaced |-> NoRow]
    /\ UNCHANGED <<initialized, db, totalMessages, now>>
    /\ CacheFrame

\* time passes between two cache calls
Tick ==
    /\ now < StartTime + MaxTick * TickMs
    /\ now' = now + TickMs
    /\ answer' = NoAnswer
    /\ UNCHANGED <<initialized, db, totalMessages>>
    /\ CacheFrame

\* the interval timers the program sets up: the store written to its file
\* every 10 s (init) and the connection check of the main script every 60 s
Intervals == {"storeFlush", "keepAlive"}

\* an interval timer fires: the store is written, or isConnected is read and a
\* line logged; neither callback touches the message cache
IntervalFire(timer) ==
    /\ last' = [FirstStep EXCEPT !.kind = timer]
    /\ UNCHANGED <<lifecycleVars, routerVars, storeVars, cacheVars, registryVars, moduleVars>>

\* ----------------------------------------------------------------- Chatbot
ChatbotFrame == UNCHANGED <<lifecycleVars, routerVars, storeVars, cacheVars, registryVars,
                            deletedRecovered, last>>

\* Array.prototype.slice(-n) for 0 < n
LastN(entries, n) ==
    IF Len(entries) <= n THEN entries ELSE SubSeq(entries, Len(entries) - n + 1, Len(entries))

\* the entry pushed by addToHistory for a user who was given n entries before:
\* { role, message, timestamp }
Entry(role, n) == [role |-> role, stamp |-> n + 1]

\* a history cut to its first maxHistory entries
addToHistory_keepsOldest(entries, entry) ==
    LET pushed == Append(entries, entry)
    IN IF Len(pushed) > maxHistory THEN SubSeq(pushed, 1, maxHistory) ELSE pushed

\* addToHistory(userId, role, message) on the array of that user: push, then
\* `if (history.length > this.maxHistory)` keep history.slice(-this.maxHistory)
addToHistory(entries, entry) ==
    LET pushed == Append(entries, entry)
    IN IF Len(pushed) > maxHistory THEN LastN(pushed, maxHistory) ELSE pushed

RECURSIVE TotalAdded(_)
TotalAdded(users) ==
    IF users = {} THEN 0
    ELSE LET u == CHOOSE x \in users : TRUE IN Len(added[u]) + TotalAdded(users \ {u})

\* chat(prompt, userId) up to `await handler(prompt, chatContext)`; a call whose
\* settings lookup throws reaches the catch block with nothing added and is a
\* stuttering step
ChatBegin(u) ==
    /\ u \notin pending
    /\ TotalAdded(Users) < MaxAdded
    /\ history' = [history EXCEPT ![u] = addToHistory(@, Entry("user", Len(added[u])))]
    /\ added' = [added EXCEPT ![u] = Append(@, Entry("user", Len(added[u])))]
    /\ pending' = pending \cup {u}
    /\ ChatbotFrame

\* chat() resumed with the provider's result: the response is added
\* `if (result.success)`
ChatEnd(u, success) ==
    /\ u \in pending
    /\ success => TotalAdded(Users) < MaxAdded
    /\ pending' = pending \ {u}
    /\ IF success
       THEN /\ history' = [history EXCEPT ![u] = addToHistory(@, Entry("assistant", Len(added[u])))]
            /\ added' = [added EXCEPT ![u] = Append(@, Entry("assistant", Len(added[u])))]
       ELSE UNCHANGED <<history, added>>
    /\ ChatbotFrame

\* --------------------------------------------------------- CommandHandler
RegistryFrame == UNCHANGED <<lifecycleVars, routerVars, storeVars, cacheVars, moduleVars, last>>

\* Map.prototype.get
Get(table, name) == IF name \in DOMAIN table THEN table[name] ELSE NoCommand

\* a registration that keeps the definition loaded first
Register_keepFirst(table, name, desc) ==
    [n \in DOMAIN table \cup {name} |-> IF n \in DOMAIN table THEN table[n] ELSE desc]

\* this.commands.set(commandName, {...})
Register(table, name, desc) ==
    [n \in DOMAIN table \cup {name} |-> IF n = name THEN desc ELSE table[n]]

\* the descriptor registered for name from module m of path: its execute is the
\* one of that content of the source
Descriptor(name, path, m) ==
    [name |-> name, path |-> path, rev |-> m.rev, category |-> CategoryOf(path, m)]

\* the entries of one module: a category module registers the basename of its
\* file, a flat module every exported key that has an execute function
RECURSIVE RegisterKeys(_, _, _, _)
RegisterKeys(table, keys, path, m) ==
    IF keys = {} THEN table
    ELSE LET k == CHOOSE x \in keys : TRUE
         IN RegisterKeys(Register(table, k, Descriptor(k, path, m)), keys \ {k}, path, m)

\* require(path): the cached module if there is one, else the file is
\* evaluated; a file that fails throws and is not cached
Require(path, cache, fs) ==
    IF cache[path] # NoModule THEN [threw |-> FALSE, module |-> cache[path]]
    ELSE IF fs[path].state = "broken" THEN [threw |-> TRUE, module |-> NoModule]
    ELSE [threw |-> FALSE, module |-> fs[path]]

\* a load that gives up at the first source that fails
AfterFailure_abort(i) == Len(LoadOrder) + 1

\* the per-file catch block logs and the loop goes on with the next file
AfterFailure(i) == i + 1

\* loadCommands from the i-th source on; files that are absent are not listed
\* by readdirSync
RECURSIVE LoadFrom(_, _, _, _)
LoadFrom(i, table, cache, fs) ==
    IF i > Len(LoadOrder) THEN [table |-> table, cache |-> cache]
    ELSE LET path == LoadOrder[i]
             r == Require(path, cache, fs)
         IN IF fs[path] = NoFile THEN LoadFrom(i + 1, table, cache, fs)
            ELSE IF r.threw THEN LoadFrom(AfterFailure(i), table, cache, fs)
            ELSE LoadFrom(i + 1, RegisterKeys(table, r.module.keys, path, r.module),
                          [cache EXCEPT ![path] = r.module], fs)

\* new CommandHandler(bot, config): the constructor ends with loadCommands()
loadCommands ==
    /\ returned = NoOutcome
    /\ LET l == LoadFrom(1, commands, requireCache, files)
       IN /\ commands' = l.table
          /\ requireCache' = l.cache
          /\ returned' = [op |-> "load", size |-> Cardinality(DOMAIN l.table)]
    /\ UNCHANGED <<files, changes>>
    /\ RegistryFrame

\* reloadCommands(): clears the table, deletes the require.cache entry of every
\* file found in the category directories, loads, and returns the table size
reloadCommands ==
    /\ returned # NoOutcome
    /\ LET cleared == [p \in Paths |-> IF IsCategory(p) /\ files[p] # NoFile
                                       THEN NoModule ELSE requireCache[p]]
           l == LoadFrom(1, EmptyTable, cleared, files)
       IN /\ commands' = l.table
          /\ requireCache' = l.cache
          /\ returned' = [op |-> "reload", size |-> Cardinality(DOMAIN l.table)]
    /\ UNCHANGED <<files, changes>>
    /\ RegistryFrame

\* a command source is added, edited, broken or removed on disk; every new
\* content of a path carries a new rev
ChangeFile(path, content) ==
    /\ returned # NoOutcome
    /\ changes < MaxChanges
    /\ content # files[path]
    /\ files' = [files EXCEPT ![path] = content]
    /\ changes' = changes + 1
    /\ returned' = [op |-> "change", path |-> path]
    /\ UNCHANGED <<requireCache, commands>>
    /\ RegistryFrame

\* what execute may do: return a text, return nothing, throw an Error, throw a
\* string, throw null
Behaviours == {"returnsText", "returnsNothing", "throwsError", "throwsString", "throwsNull"}
Undefined == [type |-> "undefined"]
Execute(behaviour) ==
    CASE behaviour = "returnsText" -> [threw |-> FALSE, value |-> [type |-> "string", text |-> "pong"]]
      [] behaviour = "returnsNothing" -> [threw |-> FALSE, value |-> Undefined]
      [] behaviour = "throwsError" -> [threw |-> TRUE, value |-> [type |-> "Error", message |-> "boom"]]
      [] behaviour = "throwsString" -> [threw |-> TRUE, value |-> [type |-> "string", text |-> "boom"]]
      [] behaviour = "throwsNull" -> [threw |-> TRUE, value |-> [type |-> "null"]]

\* the text of a command message: the prefix, then the name as typed
TextFor(typed) == PREFIX \o <<typed>>

\* text.slice(PREFIX.length).trim().split(/ +/)[0].toLowerCase()
CommandNameOf(text) == toLowerCase(Head(SubSeq(text, Len(PREFIX) + 1, Len(text))))

NoResult == [success |-> FALSE, message |-> [kind |-> "none"]]

UnknownCommand_noPrefix ==
    [success |-> FALSE, message |-> [kind |-> "unknown", prefix |-> << >>, hint |-> "menu"]]

\* `Unknown command. Type ${PREFIX}menu for available commands.`
UnknownCommand ==
    [success |-> FALSE, message |-> [kind |-> "unknown", prefix |-> PREFIX, hint |-> "menu"]]

ResultMessage_default(value) == [kind |-> "default"]

\* result || 'Command executed.'
ResultMessage(value) ==
    IF value.type = "string" THEN [kind |-> "text", text |-> value.text]
    ELSE [kind |-> "default"]

\* `Error: ${error.message}` ; a thrown string has no message property
ExecutionFailed(error) ==
    [success |-> FALSE,
     message |-> [kind |-> "error",
                  text |-> IF error.type = "Error" THEN error.message ELSE "undefined"]]

\* handleCommand(msg, text, ...) from the call to the settled promise
handleCommand(typed, behaviour) ==
    /\ returned # NoOutcome
    /\ LET commandName == CommandNameOf(TextFor(typed))
           command == Get(commands, commandName)
           r == Execute(behaviour)
           call == [op |-> "dispatch", typed |-> typed, behaviour |-> behaviour,
                    ran |-> command]
       IN returned' =
            IF command = NoCommand
            THEN call @@ [raised |-> FALSE, result |-> UnknownCommand]
            ELSE IF ~r.threw
            THEN call @@ [raised |-> FALSE,
                          result |-> [success |-> TRUE, message |-> ResultMessage(r.value),
                                      command |-> commandName]]
            ELSE IF r.value.type = "null"
            THEN call @@ [raised |-> TRUE, result |-> NoResult]
            ELSE call @@ [raised |-> FALSE, result |-> ExecutionFailed(r.value)]
    /\ UNCHANGED <<files, requireCache, commands, changes>>
    /\ RegistryFrame

\* ------------------------------------------------------ generateHelpMenu
\* the names of a set of commands as the lines of one section
RECURSIVE Listing(_)
Listing(names) ==
    IF names = {} THEN << >>
    ELSE LET n == CHOOSE x \in names : TRUE IN <<n>> \o Listing(names \ {n})

\* the commands whose descriptor has category cat
NamesIn(table, cat) == {n \in DOMAIN table : table[n].category = cat}

\* `if (categoryCommands.length > 0)`
NonEmptySection(section) == section.names # << >>

\* the menu text as its parts: one section per category of this.categories that
\* has commands, in that order, and the footer `Total: ${this.commands.size}`
Menu(table) ==
    [sections |-> SelectSeq([i \in DOMAIN CategoryOrder |->
                                [category |-> CategoryOrder[i],
                                 names |-> Listing(NamesIn(table, CategoryOrder[i]))]],
                            NonEmptySection),
     total |-> Cardinality(DOMAIN table)]

\* generateHelpMenu()
generateHelpMenu ==
    /\ returned # NoOutcome
    /\ returned' = [op |-> "menu", menu |-> Menu(commands)]
    /\ UNCHANGED <<files, requireCache, commands, changes>>
    /\ RegistryFrame

\* ------------------------------------------ handleCommand: tokenizing
\* the characters of a command text: a space, a lower-case and an upper-case letter
Chars == {" ", "a", "B"}
LowerChar(c) == IF c = "B" THEN "b" ELSE c

\* String.prototype.slice(n) for 0 <= n
Slice(text, n) == SubSeq(text, n + 1, Len(text))

\* String.prototype.trim
RECURSIVE TrimStart(_)
TrimStart(text) ==
    IF text # << >> /\ Head(text) = " " THEN TrimStart(Tail(text)) ELSE text
RECURSIVE TrimEnd(_)
TrimEnd(text) ==
    IF text # << >> /\ text[Len(text)] = " "
    THEN TrimEnd(SubSeq(text, 1, Len(text) - 1)) ELSE text
Trim(text) == TrimEnd(TrimStart(text))

\* String.prototype.split(/ +/): the pieces between runs of spaces; the empty
\* string gives one empty piece
RECURSIVE SplitFrom(_, _, _, _)
SplitFrom(text, i, piece, pieces) ==
    IF i > Len(text) THEN Append(pieces, piece)
    ELSE IF text[i] # " " THEN SplitFrom(text, i + 1, Append(piece, text[i]), pieces)
    ELSE IF i > 1 /\ text[i - 1] = " " THEN SplitFrom(text, i + 1, piece, pieces)
    ELSE SplitFrom(text, i + 1, << >>, Append(pieces, piece))
Split(text) == SplitFrom(text, 1, << >>, << >>)

\* String.prototype.toLowerCase on a sequence of characters
LowerText(text) == [i \in DOMAIN text |-> LowerChar(text[i])]

\* const commandName = text.slice(PREFIX.length).trim().split(/ +/)[0].toLowerCase()
ParseCommandName(text) == LowerText(Split(Trim(Slice(text, Len(PREFIX))))[1])

\* const args = text.slice(PREFIX.length + commandName.length).trim().split(/ +/)
ParseArgs(text) ==
    Split(Trim(Slice(text, Len(PREFIX) + Len(ParseCommandName(text)))))

\* the texts handleCommand is called with: the prefix, then what was typed
Bodies == UNION {[1..n -> Chars] : n \in 0..MaxTextLen}

\* the first two statements of handleCommand, for the text PREFIX + body
Tokenize(body) ==
    /\ returned' = [op |-> "parse", body |-> body,
                    commandName |-> ParseCommandName(PREFIX \o body),
                    args |-> ParseArgs(PREFIX \o body)]
    /\ UNCHANGED <<files, requireCache, commands, changes>>
    /\ RegistryFrame

\* ---------------------------------------------------------- specification
Next ==
    \/ init
    \/ startBot
    \/ \E c \in Callers : ConnectCheckSession(c)
    \/ \E c \in Callers : ConnectCreateSocket(c)
    \/ TimerFire
    \/ \E res \in SendResults : AnnounceFire(res)
    \/ \E h \in HandleIds : TransportOpen(h)
    \/ \E h \in HandleIds, r \in CloseReasons : TransportClose(h, r)

\* the connection lifecycle: construction, startBot, transport status events
Spec == Init /\ [][Next]_vars

\* the same program with a transport that may report a close twice
DupNext ==
    \/ Next
    \/ \E h \in HandleIds, r \in CloseReasons : TransportDuplicateClose(h, r)

DupSpec == Init /\ [][DupNext]_vars

\* the session once the first handle has opened and the startup
\* notification has been sent, with toggles s in the settings store
ConnectedSession(s) ==
    /\ phase = "started"
    /\ exited = "no"
    /\ connectionState = "connected"
    /\ isConnected = TRUE
    /\ reconnectAttempts = 0
    /\ sock = 1
    /\ errors = 0
    /\ reconnects = 0
    /\ handles = [h \in HandleIds |-> IF h = 1 THEN "open" ELSE "unused"]
    /\ timers = 0
    /\ inflight = EmptyBag
    /\ announce = 0
    /\ task = IdleTask
    /\ messagesProcessed = 0
    /\ commandsExecuted = 0
    /\ settings = s
    /\ rejections = 0
    /\ initialized = TRUE
    /\ db = [k \in Ids |-> NoRow]
    /\ totalMessages = 0
    /\ now = StartTime
    /\ answer = NoAnswer
    /\ files = [p \in Paths |-> NoFile]
    /\ requireCache = [p \in Paths |-> NoModule]
    /\ commands = EmptyTable
    /\ changes = 0
    /\ returned = NoOutcome
    /\ deletedRecovered = 0
    /\ history = [u \in Users |-> << >>]
    /\ added = [u \in Users |-> << >>]
    /\ pending = {}
    /\ last = FirstStep

RouterInit == ConnectedSession(DefaultSettings)

\* the event router of a connected session handling one messages.upsert batch
RouterSpec == RouterInit /\ [][RouterNext]_vars

\* the classification of one message, for every shape the chat path tells
\* apart and every content of the settings store
ChatInit == \E s \in AllSettings : ConnectedSession(s)

ChatNext ==
    \/ \E m \in ChatShapes : DeliverBatch(<<m>>, "notify")
    \/ \E ok \in BOOLEAN : AutoFeaturesDone(ok)
    \/ \E o \in CommandOutcomes : CommandDone(o)
    \/ \E o \in ChatOutcomes : ChatbotDone(o)
    \/ \E ok \in BOOLEAN : CacheWriteComplete(1, ok)

ChatSpec == ChatInit /\ [][ChatNext]_vars

\* a pending setTimeout callback runs once its delay has elapsed
LiveSpec ==
    /\ Init
    /\ [][Next]_vars
    /\ WF_vars(TimerFire)

\* the router with the other event kinds of the transport, one message a batch
EventNext ==
    \/ \E m \in Shapes : DeliverBatch(<<m>>, "notify")
    \/ \E ok \in BOOLEAN : AutoFeaturesDone(ok)
    \/ \E o \in CommandOutcomes : CommandDone(o)
    \/ \E o \in ChatOutcomes : ChatbotDone(o)
    \/ \E ok \in BOOLEAN : CacheWriteComplete(1, ok)
    \/ \E k \in EventKinds, site \in FailureSites : HandleEvent(k, site)

EventSpec == RouterInit /\ [][EventNext]_vars

\* the cache called with messages that differ in id, chat and content
CacheNext ==
    \/ DatabaseReady
    \/ \E msg \in KeyMessages, dbOk \in BOOLEAN : addMessage(msg, dbOk)
    \/ \E id \in Ids, chat \in Chats \cup {NoChat} : getMessage(id, chat)

CacheSpec == Init /\ [][CacheNext]_vars

\* the cache called with messages of different ages, and swept
SweepNext ==
    \/ DatabaseReady
    \/ \E msg \in TimedMessages : addMessage(msg, TRUE)
    \/ cleanupOldMessages
    \/ Tick

SweepSpec == Init /\ [][SweepNext]_vars

\* the cache under messages, revocations, explicit deletions and sweeps
RevokeNext ==
    \/ DatabaseReady
    \/ \E msg \in KeyMessages : addMessage(msg, TRUE)
    \/ \E id \in Ids, chat \in Chats : getMessage(id, chat)
    \/ \E id \in Ids, chat \in Chats : Revocation(id, chat)
    \/ \E id \in Ids : deleteMessage(id)
    \/ cleanupOldMessages

RevokeSpec == Init /\ [][RevokeNext]_vars

\* handleCommand called with every text of the prefix and up to MaxTextLen
\* characters
TokenNext == \E body \in Bodies : Tokenize(body)

TokenSpec == Init /\ [][TokenNext]_vars

\* command sources whose commands may declare a category
MenuFiles ==
    {f \in [Paths -> UNION {{NoFile} \cup {DeclaredFile(p, keys, 1, c) :
                                             keys \in SUBSET FlatKeys \ {{}}, c \in Declared} :
                            p \in Paths}] :
        \A p \in Paths : f[p] = NoFile \/ \E keys \in SUBSET FlatKeys \ {{}}, c \in Declared :
                                             f[p] = DeclaredFile(p, keys, 1, c)}

MenuInit == \E f \in MenuFiles : Constructed(f)

\* the menu asked of a registry built once
MenuNext ==
    \/ loadCommands
    \/ generateHelpMenu

MenuSpec == MenuInit /\ [][MenuNext]_vars

\* the command sources a deployment may start with
InitialFiles == {f \in [Paths -> UNION {Contents(p, 1) : p \in Paths}] :
                    \A p \in Paths : f[p] \in Contents(p, 1)}

RegistryInit == \E f \in InitialFiles : Constructed(f)

\* commands dispatched to a registry built once
DispatchNext ==
    \/ loadCommands
    \/ \E typed \in Typed, behaviour \in Behaviours : handleCommand(typed, behaviour)

DispatchSpec == RegistryInit /\ [][DispatchNext]_vars

\* the registry built, then rebuilt while the sources change on disk
RegistryNext ==
    \/ loadCommands
    \/ reloadCommands
    \/ \E p \in Paths : \E c \in Contents(p, changes + 2) : ChangeFile(p, c)

RegistrySpec == RegistryInit /\ [][RegistryNext]_vars

\* the cache written to while time passes and the program's own timers run
TimerNext ==
    \/ DatabaseReady
    \/ \E msg \in TimedMessages : addMessage(msg, TRUE)
    \/ Tick
    \/ \E timer \in Intervals : IntervalFire(timer)

\* time passes, and every interval timer keeps firing
TimerSpec ==
    /\ Init
    /\ [][TimerNext]_vars
    /\ WF_vars(Tick)
    /\ \A timer \in Intervals : WF_vars(IntervalFire(timer))

\* chat calls of several users, interleaved at the provider call
HistoryNext ==
    \/ \E u \in Users : ChatBegin(u)
    \/ \E u \in Users, success \in BOOLEAN : ChatEnd(u, success)

HistorySpec == Init /\ [][HistoryNext]_vars

\* the cache called with every shape of payload
DeriveNext ==
    \/ DatabaseReady
    \/ \E msg \in ShapedMessages : addMessage(msg, TRUE)
    \/ getMessage(1, 1)

DeriveSpec == Init /\ [][DeriveNext]_vars

\* ------------------------------------------------------------ properties
RetryableClose == last.kind = "close" /\ last.reason # 401

\* C1 (as stated): the delay scheduled by a retryable close is
\* min(1000 * 2^N, 30000) where N is the value the reconnect-attempt counter
\* had when the close arrived (0 for the first attempt after an open: 1 s, 2 s, 4 s, ...).
C1_DelayCountsFromZero ==
    (RetryableClose /\ last.delay # 0) =>
        last.delay = Min(1000 * 2 ^ last.before, 30000)

\* C1 (amended): the delay scheduled by a retryable close is
\* min(1000 * 2^N, 30000) where N is the counter after its increment by that
\* close (1 for the first attempt after an open: 2 s, 4 s, 8 s, 16 s, 30 s, ...).
C1_DelayCountsFromOne ==
    (RetryableClose /\ last.delay # 0) =>
        /\ reconnectAttempts = last.before + 1
        /\ last.delay = Min(1000 * 2 ^ reconnectAttempts, 30000)
        /\ last.delay \in {2000, 4000, 8000, 16000, 30000}

\* a close that found the counter at 4 scheduled the capped delay
C1_Witness == RetryableClose /\ last.before = 4 /\ last.delay = 30000 /\ timers = 1

\* C2: at most one connect attempt is pending or in flight: a scheduled
\* reconnect timer, a suspended connect() call or a handle still connecting.
PendingAttempts ==
    timers + BagCardinality(inflight)
        + Cardinality({h \in HandleIds : handles[h] = "connecting"})

C2_SingleAttempt == PendingAttempts <= 1

\* C3: a retryable close that finds the counter at the maximum terminates the
\* process.
C3_ExhaustionIsFatal ==
    (RetryableClose /\ last.before = maxReconnectAttempts) => exited # "no"

\* C4: the counter stays within 0..10, at most 10 reconnects are scheduled
\* between two opens, and a close that finds the counter at 10 schedules nothing.
C4_AttemptsBounded ==
    /\ [](reconnectAttempts \in 0..10 /\ last.sinceOpen <= 10)
    /\ []((last.kind = "close" /\ last.before >= 10) => last.delay = 0)
    /\ [][(last'.kind = "close" /\ last'.before >= 10) =>
            (timers' = timers /\ reconnectAttempts' = reconnectAttempts)]_vars

C4_Witness == RetryableClose /\ last.before = 10 /\ last.sinceOpen = 10

\* C5: the process exits as "session invalid" only in the handling of a close
\* whose reason is 401; such a close schedules nothing, and after it no timer is
\* scheduled, no connect() is started and no handle is created.
C5_AuthExitOnly401 ==
    /\ [](exited = "auth" => (last.kind = "close" /\ last.reason = 401))
    /\ []((last.kind = "close" /\ last.reason = 401) => (exited = "auth" /\ last.delay = 0))
    /\ [][(last.kind = "close" /\ last.reason = 401) =>
            UNCHANGED <<timers, inflight, handles, sock, connectionState>>]_vars

C5_Witness == exited = "auth" /\ last.reason = 401 /\ reconnectAttempts > 0

\* C6: after a close with a reason other than 401 that found the counter below
\* 10, the session reaches the connecting state (the timer fires and connect()
\* runs).
C6_RetryableCloseLeadsToConnecting ==
    (RetryableClose /\ last.before < 10) ~> (connectionState = "connecting")

C6_Witness ==
    /\ connectionState = "connecting"
    /\ BagIn(<<"timer", "check">>, inflight)
    /\ reconnectAttempts > 0

\* C7: a connect() that finds the credential artifact absent exits the process
\* at once: it creates no handle, subscribes no handler, counts no error and
\* schedules no reconnect.
C7_MissingSessionFailsFast ==
    /\ [](last.kind = "sessionAbsent" => exited = "nosession")
    /\ [][last'.kind = "sessionAbsent" =>
            UNCHANGED <<handles, sock, timers, reconnectAttempts, errors>>]_vars

C7_Witness == last.kind = "sessionAbsent" /\ exited = "nosession" /\ reconnectAttempts > 0

\* C8 (as stated): the process exits only for a missing credential artifact, a
\* 401 close or exhausted reconnect attempts, and a failed connect attempt
\* leaves it running.
C8_OnlyThreeReasons ==
    /\ exited \in {"no", "nosession", "auth", "exhausted"}
    /\ last.kind \in {"startFailed", "reconnectFailed"} => exited = "no"

\* C8 (amended): the process exits only for a failed init, a missing credential
\* artifact, a failed first connect attempt made by startBot, a 401 close or
\* exhausted reconnect attempts; a failed reconnect attempt leaves it running.
C8_ExitReasons ==
    /\ exited \in {"no", "init", "nosession", "startfail", "auth", "exhausted"}
    /\ exited = "init" => last.kind = "initFailed"
    /\ exited = "nosession" => last.kind = "sessionAbsent"
    /\ exited = "startfail" => last.kind = "startFailed"
    /\ exited = "auth" => (last.kind = "close" /\ last.reason = 401)
    /\ last.kind = "reconnectFailed" => (exited = "no" /\ errors > 0)

C8_Witness == last.kind = "reconnectFailed" /\ exited = "no"

\* C9: when the handling of a notify batch has returned, every message of the
\* batch was handled, and each message in whose handling a failure was raised
\* added exactly one to the error counter.
C9_FailuresIsolatedAndCounted ==
    task.pc = "done" =>
        /\ task.entered = DOMAIN task.msgs
        /\ \A i \in DOMAIN task.msgs : task.raised[i] => task.counted[i] = 1

\* C10: messages are handled in delivery order, and the handling of a message
\* starts only when every side effect of the messages before it, the cache
\* write included, has completed.
C10_StrictlySequential ==
    /\ \A i \in task.entered : \A j \in 1..(i - 1) : j \in task.entered
    /\ \A i \in task.entered : \A j \in 1..(i - 1) : task.write[j] # "pending"

\* C11: when a message that carries a payload is handed to the command
\* dispatcher or to the chat path, its cache write has completed and the
\* record is stored.
C11_CachedBeforeClassified ==
    task.pc \in {"command", "chat"} => task.write[task.idx] = "stored"

\* C12: a batch whose kind is not "notify" writes nothing to the cache,
\* dispatches no command, makes no chat call and leaves the message, command and
\* error counters as they were.
C12_BackfillIgnored ==
    [][last'.kind = "batchIgnored" =>
          UNCHANGED <<task, messagesProcessed, commandsExecuted, errors>>]_vars

\* a backfill batch arrived while a notify batch was being handled
C12_Witness ==
    /\ last.kind = "batchIgnored"
    /\ task.pc = "auto"
    /\ task.write[1] = "pending"
    /\ messagesProcessed = 1

\* the text of the message being classified is non-empty and starts with the prefix
HasPrefix(m) ==
    /\ Len(TextOf(m)) > 0
    /\ SubSeq(TextOf(m), 1, Len(PREFIX)) = PREFIX

Allows(toggle) == toggle \in {"unset", "on"}

\* C14: a call to the chat collaborator is made, and a chat reply sent, only
\* for a message that is no command, was not sent by the bot's own account and
\* whose scope allows it: the user toggle, and in a group the group toggle as
\* well, an unset toggle counting as allowing.
C14_ChatOnlyWhenEnabled ==
    /\ task.replied \subseteq {i \in DOMAIN task.msgs : task.chat[i] # "none"}
    /\ \A i \in DOMAIN task.msgs :
          task.chat[i] # "none" =>
              /\ ~HasPrefix(task.msgs[i])
              /\ task.msgs[i] \notin {"own", "ownCommand"}
              /\ Allows(settings.user)
              /\ task.msgs[i] = "group" => Allows(settings.group)

\* a group message was handed to the chat collaborator with the group toggle
\* unset and the user toggle switched on
C14_Witness ==
    /\ task.pc = "chat"
    /\ task.msgs[task.idx] = "group"
    /\ settings = [group |-> "unset", user |-> "on"]

\* C15: every message for which the provider call failed or timed out got a
\* (fallback) reply.
C15_FallbackOnProviderFailure ==
    \A i \in DOMAIN task.msgs : task.chat[i] = "failed" => i \in task.replied

\* C16: a failure raised in the handler of another event kind changes neither
\* the session nor the handling of messages, and the process stays alive.
C16_EventFailureContained ==
    /\ [](rejections > 0 => exited = "no")
    /\ [][last'.kind = "eventFailed" =>
            UNCHANGED <<exited, connectionState, isConnected, reconnectAttempts, sock,
                        handles, timers, inflight, errors, task, messagesProcessed,
                        commandsExecuted>>]_vars

\* a notify batch was taken up after a rejection had reached the process-level handler
C16_Witness ==
    /\ last.kind = "batch"
    /\ rejections > 0
    /\ task.pc = "auto"
    /\ messagesProcessed = 1

\* C17: a write replaces a stored record only when both the message id and
\* the chat id of that record equal those of the message written.
C17_KeyedByIdAndChat ==
    (answer.op = "add" /\ answer.replaced # NoRow) =>
        /\ answer.replaced.id = answer.id
        /\ answer.replaced.chatId = answer.chat

\* C18: a successful write stores the message's record under its key and adds
\* one to the total-messages counter, whether or not a record was there; a
\* getMessage right after it with the same id and chat returns the record just
\* written; no two records share a key.
C18_OverwriteAndCount ==
    /\ [][(answer'.op = "add" /\ answer'.value # NoRow) =>
            /\ totalMessages' = totalMessages + 1
            /\ db'[answer'.id] = answer'.value
            /\ answer'.value.id = answer'.id
            /\ answer'.value.chatId = answer'.chat]_vars
    /\ []((/\ answer.op = "get"
           /\ answer.prior # NoRow
           /\ answer.prior.id = answer.id
           /\ answer.prior.chatId = answer.chat) => answer.value = answer.prior)
    /\ [](\A k \in Ids : db[k] # NoRow => db[k].id = k)

\* a record was written over a record of the same id and chat with other content
C18_Witness ==
    /\ answer.op = "add"
    /\ answer.replaced # NoRow
    /\ answer.replaced.chatId = answer.chat
    /\ answer.replaced.messageData = Conversation
    /\ answer.value.messageData = CaptionedImage
    /\ db[answer.id] = answer.value
    /\ totalMessages = 2

\* the derivation rules: the first content object present, in the order given,
\* names the kind; the first worded one, in the order given, gives the text
KindOrder == <<"image", "video", "audio", "document", "sticker">>
TextOrder == <<"conversation", "extended", "image", "video", "document">>
FirstOf(order, among) ==
    IF \E i \in DOMAIN order : order[i] \in among
    THEN order[CHOOSE i \in DOMAIN order :
                  /\ order[i] \in among
                  /\ \A j \in 1..(i - 1) : order[j] \notin among]
    ELSE ""
KindRule(p) ==
    IF FirstOf(KindOrder, p.has) # "" THEN FirstOf(KindOrder, p.has)
    ELSE IF p.has \cap {"conversation", "extended"} # {} THEN "text"
    ELSE "unknown"

\* C19: getMessage right after a successful addMessage with the same id and
\* chat returns a record whose kind and text follow the derivation rules from
\* the payload written.
C19_DerivationRoundTrip ==
    (/\ answer.op = "get"
     /\ answer.prior # NoRow
     /\ answer.prior.id = answer.id
     /\ answer.prior.chatId = answer.chat) =>
        /\ answer.value # NoRow
        /\ answer.value.messageType = KindRule(answer.prior.messageData)
        /\ answer.value.textContent = FirstOf(TextOrder, answer.prior.messageData.worded)

\* a sticker quoting a text was read back: kind sticker, text of the extended text
C19_Witness ==
    /\ answer.op = "get"
    /\ answer.prior # NoRow
    /\ answer.prior.messageData = [has |-> {"extended", "sticker"}, worded |-> {"extended"}]
    /\ answer.value.messageType = "sticker"
    /\ answer.value.textContent = "extended"

\* C20: a sweep removes the records whose timestamp is strictly below now minus
\* 24 hours and no other record.
C20_SweepIsStrict ==
    [][answer'.op = "sweep" =>
          \A k \in Ids :
              db'[k] = IF db[k] # NoRow /\ db[k].timestamp < now - 86400000
                       THEN NoRow ELSE db[k]]_vars

\* a sweep removed one record and kept a record whose timestamp is the boundary
C20_Witness ==
    /\ answer.op = "sweep"
    /\ answer.value.cleaned = 1
    /\ \E k \in Ids : db[k] # NoRow /\ db[k].timestamp = now - 86400000

\* C30: every open resets the reconnect-attempt counter: the step that handles
\* an open leaves the counter at 0, the counter is 0 in every state where the
\* session is connected, and the first retryable close after an open finds the
\* counter at 0 and schedules the delay of the first backoff step.
C30_OpenResetsCounter ==
    /\ [](last.kind = "open" => reconnectAttempts = 0)
    /\ [](connectionState = "connected" => reconnectAttempts = 0)
    /\ []((RetryableClose /\ last.sinceOpen = 1 /\ last.delay # 0)
            => (last.before = 0 /\ last.delay = BackoffDelay(1)))

\* a retry was scheduled earlier, an open arrived, and the first close after
\* that open is scheduled from the first backoff step again
C30_Witness ==
    /\ RetryableClose
    /\ last.sinceOpen = 1
    /\ last.delay = BackoffDelay(1)
    /\ last.before = 0
    /\ reconnects >= 2

\* C21: a cached record (a message id in a chat) disappears from the cache only
\* in a step that is an explicit deleteMessage or a sweep; no revocation and no
\* other transport event removes it.
C21_OnlyDeleteOrSweepRemoves ==
    [][\A k \in Ids :
         (db[k] # NoRow /\ (db'[k] = NoRow \/ db'[k].chatId # db[k].chatId))
             => answer'.op \in {"delete", "sweep"}]_vars

\* the last call was a dispatch of a name whose lookup key is in the table
DispatchedKnown == returned.op = "dispatch" /\ toLowerCase(returned.typed) \in DOMAIN commands

\* C22: dispatching a name that is not in the registry does not raise; it
\* returns success = false with a message that holds the configured prefix and
\* the menu hint, and the step leaves the registry as it was.
C22_UnknownCommandFails ==
    [][(returned'.op = "dispatch" /\ toLowerCase(returned'.typed) \notin DOMAIN commands)
         => /\ returned'.raised = FALSE
            /\ returned'.result.success = FALSE
            /\ returned'.result.message.kind = "unknown"
            /\ returned'.result.message.prefix = PREFIX
            /\ returned'.result.message.hint = "menu"
            /\ commands' = commands]_vars

\* a name no source defines was dispatched to a registry that holds commands
C22_Witness ==
    /\ returned.op = "dispatch"
    /\ returned.typed.base = "nope"
    /\ DOMAIN commands # {}
    /\ returned.result.success = FALSE
    /\ returned.result.message.prefix = PREFIX

\* C23: dispatching a registered command whose execute fails does not raise; it
\* returns success = false with a message carrying the text of the failure, and
\* the step leaves the registry as it was.
C23_FailureIsReturned ==
    /\ [](DispatchedKnown /\ Execute(returned.behaviour).threw
            => /\ returned.raised = FALSE
               /\ returned.result.success = FALSE
               /\ returned.result.message.kind = "error"
               /\ returned.result.message.text = "boom")
    /\ [][returned'.op = "dispatch" => commands' = commands]_vars

C25_LookupIgnoresCase ==
    (returned.op = "dispatch" /\ \E n \in DOMAIN commands : n.base = returned.typed.base)
        => /\ returned.ran # NoCommand
           /\ returned.ran.name.base = returned.typed.base

\* the last call built the table: the constructor's load, or a reload
TableBuilt == returned.op \in {"load", "reload"}

\* the sources the build read a module from, and for a name the positions in
\* load order of the sources whose module defines it
Loaded(path) == files[path] # NoFile /\ requireCache[path] # NoModule
Definers(name) ==
    {i \in 1..Len(LoadOrder) :
        Loaded(LoadOrder[i]) /\ name \in requireCache[LoadOrder[i]].keys}
LastDefiner(name) == CHOOSE i \in Definers(name) : \A j \in Definers(name) : j <= i

\* C26: after a load the table holds one entry for each name some loaded source
\* defines, and that entry is the descriptor of the last source in load order
\* (category sources, then the flat source) that defines the name.
C26_LastLoadedWins ==
    TableBuilt =>
        /\ DOMAIN commands = {n \in FlatKeys : Definers(n) # {}}
        /\ \A n \in DOMAIN commands :
              LET path == LoadOrder[LastDefiner(n)]
              IN commands[n] = Descriptor(n, path, requireCache[path])

\* three sources define ping; the table holds the one of the flat source
C26_Witness ==
    /\ returned.op = "load"
    /\ Definers(Lower("ping")) = {1, 2, 3}
    /\ commands[Lower("ping")].path = "flat"

C28_ReloadEqualsFreshLoad ==
    returned.op = "reload" =>
        commands = LoadFrom(1, EmptyTable, [p \in Paths |-> NoModule], files).table

\* C29: after a reload every command of the table executes the definition its
\* source holds now, for category sources and the flat source alike.
C29_ReloadDropsModuleCache ==
    returned.op = "reload" =>
        \A n \in DOMAIN commands :
            LET source == files[commands[n].path]
            IN source.state = "good" => commands[n].rev = source.rev

\* C31: a step schedules a startup notification exactly when it handles an
\* open, and then it schedules one; the step that runs the notification,
\* whether the send succeeds or fails, changes no session field, does not end
\* the process and lets no rejection escape.
C31_AnnouncementIsBestEffort ==
    [][/\ (last'.kind = "open" /\ handles' # handles) => announce' = announce + 1
       /\ announce' > announce => last'.kind = "open"
       /\ announce' < announce =>
            /\ last'.kind \in {"announced", "announceFailed"}
            /\ announce' = announce - 1
            /\ UNCHANGED <<connectionState, isConnected, reconnectAttempts, sock, exited,
                           errors, timers, rejections>>]_vars

\* the connection closed before the notification timer fired, and the send failed
C31_Witness ==
    /\ last.kind = "announceFailed"
    /\ connectionState = "disconnected"
    /\ handles[sock] = "closed"
    /\ reconnectAttempts = 1
    /\ exited = "no"

\* the whitespace-separated tokens of a text
RECURSIVE TokensFrom(_, _, _, _)
TokensFrom(text, i, token, tokens) ==
    IF i > Len(text) THEN (IF token = << >> THEN tokens ELSE Append(tokens, token))
    ELSE IF text[i] # " " THEN TokensFrom(text, i + 1, Append(token, text[i]), tokens)
    ELSE TokensFrom(text, i + 1, << >>, IF token = << >> THEN tokens ELSE Append(tokens, token))
Tokens(text) == TokensFrom(text, 1, << >>, << >>)

\* C32: for a text with at least one token after the prefix, the command name
\* is the first token in lower case and the argument list is the sequence of
\* the remaining tokens: empty when there is none, and the same whatever
\* white space stands between the prefix and the name.
C32_ArgsAreRemainingTokens ==
    (returned.op = "parse" /\ Tokens(returned.body) # << >>)
        => /\ returned.commandName = LowerText(Head(Tokens(returned.body)))
           /\ returned.args = Tail(Tokens(returned.body))

\* the lines of a menu: <<section, position>>
MenuLines(menu) ==
    UNION {{<<i, j>> : j \in DOMAIN menu.sections[i].names} : i \in DOMAIN menu.sections}

\* position of a category in the fixed display order (0: not one of them)
DisplayRank(cat) ==
    IF \E i \in DOMAIN CategoryOrder : CategoryOrder[i] = cat
    THEN CHOOSE i \in DOMAIN CategoryOrder : CategoryOrder[i] = cat ELSE 0

\* C33: the help menu leaves the registry unchanged, lists every registered
\* command on exactly one line, under its category, with the sections in the
\* fixed category order and none of them empty, and its footer total equals the
\* number of commands listed.
C33_MenuListsEveryCommand ==
    /\ [][returned'.op = "menu" => commands' = commands]_vars
    /\ [](returned.op = "menu" =>
            LET menu == returned.menu
            IN /\ \A n \in DOMAIN commands :
                     Cardinality({l \in MenuLines(menu) :
                                     /\ menu.sections[l[1]].names[l[2]] = n
                                     /\ menu.sections[l[1]].category = commands[n].category}) = 1
               /\ \A i \in DOMAIN menu.sections : menu.sections[i].names # << >>
               /\ \A i, j \in DOMAIN menu.sections :
                     i < j => DisplayRank(menu.sections[i].category)
                                < DisplayRank(menu.sections[j].category)
               /\ menu.total = Cardinality(MenuLines(menu)))

\* C34: the deleted-recovered counter goes up by one in each step that looks a
\* message up successfully right after the transport reported its revocation,
\* and is unchanged by every other step.
C34_RecoveriesAreCounted ==
    [][LET recovery == /\ answer.op = "revoke"
                       /\ answer'.op = "get"
                       /\ answer'.id = answer.id
                       /\ answer'.chat = answer.chat
                       /\ answer'.value # NoRow
       IN deletedRecovered' = deletedRecovered + IF recovery THEN 1 ELSE 0]_vars

\* C35: with no caller of the cache other than the program's own timers, every
\* cached record whose timestamp is older than the retention window is
\* eventually removed.
C35_ExpiredEventuallySwept ==
    \A k \in Ids : (db[k] # NoRow /\ Expired(db[k], now)) ~> (db[k] = NoRow)

\* C36: no step that handles a message batch, a command, a chat response or a
\* group, reaction, call, presence or chat-metadata event changes the
\* lifecycle state, the reconnect-attempt counter or the transport handle.
C36_HandlersLeaveSession ==
    [][UNCHANGED <<connectionState, reconnectAttempts, sock>>]_vars

\* a command was executed, then the handler of another event failed; the
\* session is as the open left it
C36_Witness ==
    /\ last.kind = "eventFailed"
    /\ commandsExecuted = 1
    /\ connectionState = "connected"
    /\ reconnectAttempts = 0
    /\ sock = 1

\* C37: while the process runs, a session in the connecting state always has
\* an attempt under way: a reconnect timer pending, a connect() call in
\* progress or a handle that is connecting; so a failed reconnect attempt is
\* followed by another attempt or by the end of the process.
C37_ConnectingHasAttempt ==
    (exited = "no" /\ connectionState = "connecting") => PendingAttempts > 0

\* the handle held in this.sock is live on the transport side
CurrentLive == sock # NoHandle /\ handles[sock] \in {"connecting", "open"}

\* C38: only an event of the current handle changes what the connection-status
\* handler writes: in a step in which the current handle is live and reports
\* nothing, the connected flag, the attempt counter and the number of
\* reconnects scheduled stay as they are.
C38_SupersededHandleIgnored ==
    [][(CurrentLive /\ sock' = sock /\ handles'[sock] = handles[sock])
         => UNCHANGED <<isConnected, reconnectAttempts, reconnects>>]_vars

\* C39: the connected flag is true exactly when the lifecycle state is
\* connected.
C39_FlagMatchesState == isConnected <=> (connectionState = "connected")

\* C40: for every user the stored history has at most maxHistory entries, and
\* they are the entries added last for that user, in the order they were added.
C40_HistoryKeepsLastTen ==
    \A u \in Users :
        /\ Len(history[u]) <= maxHistory
        /\ history[u] = LastN(added[u], maxHistory)

\* one user was given more than maxHistory entries, the oldest were dropped;
\* another user's short history is whole
C40_Witness ==
    \E u, v \in Users :
        /\ Len(added[u]) > maxHistory
        /\ Len(history[u]) = maxHistory
        /\ history[u][1] = added[u][Len(added[u]) - maxHistory + 1]
        /\ history[u][1] # added[u][1]
        /\ v # u
        /\ added[v] # << >>
        /\ history[v] = added[v]

====
